---- MODULE Spec2Model ----
(***************************************************************************)
(* Model of the quiz_calendar reminder bot (src/bot.py) and its HTTP       *)
(* gateway (src/server.py) sharing one SQLite store.                       *)
(*                                                                         *)
(* Time is counted in whole hours.  The store is the COMMITTED content of  *)
(* the tables events, votes and reminders.  Every connection runs          *)
(* python's sqlite3 in its default mode: SELECTs run in autocommit, the    *)
(* first INSERT/UPDATE/DELETE opens a write transaction that lasts until   *)
(* commit() or until the connection is closed (rollback).  SQLite admits   *)
(* one writer at a time, so write transactions are serial; a handler       *)
(* whose reads and writes are separated by an await is split in two        *)
(* actions only where another commit in between changes the outcome.       *)
(* votes.updated_at_iso, the users table (display names) and the text      *)
(* columns of events are never read by a decision of the program and are   *)
(* left out.                                                               *)
(***************************************************************************)
EXTENDS Integers, Sequences, FiniteSets, TLC

\* ---------------------------------------------------------------- bounds
MaxReminders == 4   \* reminder ids handed out
MaxFaults == 1      \* Notifier and Store calls that raise, and crashes of the bot process
MaxPending == 1     \* bot handlers suspended between their read and their write
MaxRequests == 4    \* client requests that got past their checks
MaxHour == 9        \* latest clock reading the bot is started at (SpecCreate)
MaxPendingEdits == 2 \* edited_via_api handlers suspended at once (SpecEdit)

\* Clock readings (hours) at which the program is observed, and the start
\* times a client may ask for: a start of 40 has its deadlines at 4 and 37,
\* so a reading lies before, at and after each deadline, and 38 is two hours
\* before the start.
Clock == {0, 4, 37, 38}
StartTimes == {40}
PatchStartTimes == {40, 44}
\* How far ahead of the clock a create form puts the start (SpecCreate): on
\* both sides of the 3 h and the 36 h offsets.
LeadTimes == {2, 3, 4, 36, 37, 40}

\* ------------------------------------------------------ program constants
NULL == -1                       \* python None / SQL NULL
OPT_YES == 0
OPT_MAYBE == 1
OPT_NO == 2
REM_36H == "maybe_36h"
REM_3H == "yes_3h"
Hours36 == 36
Hours3 == 3
ChatSigLen == 20
HexDigestLen == 64

Chats == {5, 7}
Kinds == {REM_36H, REM_3H}
OptionIds == {OPT_YES, OPT_MAYBE, OPT_NO, NULL}
Users == {1, 2}
\* The chat the create form is opened from, and the answers users give to a
\* poll: user 1 any of them, user 2 one of the two options reminders address.
FormChats == {7}
Answers == {<<1, o>> : o \in OptionIds} \cup {<<2, OPT_YES>>, <<2, OPT_MAYBE>>}
\* Who sends the create form: user 1, or a message without from_user.
Creators == {1, NULL}
\* The event ids the sequence hands out (AUTOINCREMENT never reuses one).
EventIds == {1}
\* Telegram hands out a fresh poll id with every poll; poll 100 belongs to no event.
PollIdOf(event_id) == 100 + event_id
PollIds == {PollIdOf(0)} \cup {PollIdOf(i) : i \in EventIds}

VARIABLES
    now,            \* the wall clock, now_tz()
    events,         \* table events: rows [id, chat_id, poll_id, creator_user_id, dt_iso]
    votes,          \* table votes: rows [poll_id, user_id, option_id]
    reminders,      \* table reminders: rows [id, event_id, kind, run_at_iso, sent, sent_at_iso]
    nextEventId,    \* sqlite_sequence of events
    nextReminderId, \* sqlite_sequence of reminders
    wpc,            \* reminders_worker: "sleep", "cycle" (in the for loop), "sending"
    due,            \* reminders_worker: the rows of `due` not yet processed
    wtxn,           \* reminders_worker: its connection holds an open write transaction
    wmarks,         \* reminders_worker: uncommitted mark_reminder_sent updates [id, at]
    sending,        \* reminders_worker: the message bot.send_message is awaited for
    outbox,         \* the reminders whose message was handed to bot.send_message, in order
    pending,        \* bot handlers that have read the store and not yet written
    faults,         \* Notifier and Store calls that raised and crashes of the bot process so far
    served          \* client requests that got past their checks so far

store == <<events, votes, reminders, nextEventId, nextReminderId>>
worker == <<wpc, due, wtxn, wmarks, sending>>
vars == <<now, events, votes, reminders, nextEventId, nextReminderId,
          wpc, due, wtxn, wmarks, sending, outbox, pending, faults, served>>

\* ------------------------------------------------------------ timestamps
\* An ISO timestamp: the instant t (hours) and whether the text carries an offset.
Aware(t) == [t |-> t, tz |-> TRUE]
Naive(t) == [t |-> t, tz |-> FALSE]
\* A text datetime.fromisoformat raises on: no instant and no offset.
Unparsable == [t |-> NULL, tz |-> FALSE]

\* ------------------------------------------------------------ signatures
\* hmac.new(key, msg).hexdigest() for the bot token's key, as an injective
\* function of msg; chars is how many hex characters of it are kept.
HmacHex(msg) == [digest_of |-> msg, chars |-> HexDigestLen]
Truncate(h, n) == [digest_of |-> h.digest_of, chars |-> n]
NoSig == [digest_of |-> <<>>, chars |-> 0]
ForgedSig == [digest_of |-> <<0>>, chars |-> HexDigestLen]

\* make_chat_sig returning the whole hex digest.  C17 does not hold of it.
make_chat_sig_untruncated(chat_id) == HmacHex(<<chat_id>>)
make_chat_sig(chat_id) == Truncate(HmacHex(<<chat_id>>), ChatSigLen)
make_user_sig(chat_id, user_id) == HmacHex(<<chat_id, user_id>>)
_chat_sig_expected(chat_id) == Truncate(HmacHex(<<chat_id>>), ChatSigLen)
\* The expected user signature computed for chat 5 whatever the event's chat.
\* C16 does not hold of it.
_user_sig_expected_other_chat(chat_id, user_id) == HmacHex(<<5, user_id>>)
_user_sig_expected(chat_id, user_id) == HmacHex(<<chat_id, user_id>>)

\* core.py carries its own copies of both functions.
core_make_chat_sig(chat_id) == Truncate(HmacHex(<<chat_id>>), ChatSigLen)
core_make_user_sig(chat_id, user_id) == HmacHex(<<chat_id, user_id>>)

UserSigInputs == {NoSig, ForgedSig} \cup {make_user_sig(c, u) : c \in Chats, u \in Users}
ChatSigInputs == {NoSig, ForgedSig} \cup {make_chat_sig(c) : c \in Chats}

\* X-Telegram-InitData: absent (""), or a payload with a hash that verifies
\* or not, carrying a user id or none.
NoInitData == [present |-> FALSE, hash_ok |-> FALSE, user_id |-> NULL]
InitDatas == {NoInitData} \cup
    {[present |-> TRUE, hash_ok |-> h, user_id |-> u] : h \in BOOLEAN, u \in Users \cup {NULL}}
\* The verified user id, or NULL where the function raises HTTPException(401).
telegram_webapp_verify_initdata(init_data) ==
    IF ~init_data.present THEN NULL
    ELSE IF ~init_data.hash_ok THEN NULL
    ELSE init_data.user_id

\* ----------------------------------------------------------------- store
EventById(ev, event_id) == {e \in ev : e.id = event_id}
EventByPoll(ev, poll_id) == {e \in ev : e.poll_id = poll_id}
RowOf(S) == CHOOSE r \in S : TRUE

KindOffset(kind) == IF kind = REM_36H THEN Hours36 ELSE Hours3

\* INSERT OR IGNORE INTO reminders(event_id, kind, run_at_iso, sent): the row is
\* dropped when UNIQUE(event_id, kind) is taken; the id comes from the sequence.
InsertReminderOrIgnore(rem, rid, event_id, kind, run_at) ==
    IF \E r \in rem : r.event_id = event_id /\ r.kind = kind
    THEN rem
    ELSE rem \cup {[id |-> rid, event_id |-> event_id, kind |-> kind,
                    run_at_iso |-> run_at, sent |-> 0, sent_at_iso |-> NULL]}

\* create_or_replace_reminders with `>=` for the `>` of both comparisons: a
\* deadline equal to the clock reading is inserted.  C10 does not hold of it.
create_or_replace_reminders_at_or_after(rem, rid, event_id, dt, t) ==
    LET t36 == dt - Hours36
        t3 == dt - Hours3
        r0 == {r \in rem : r.event_id # event_id}
        r1 == IF t36 >= t THEN InsertReminderOrIgnore(r0, rid, event_id, REM_36H, t36) ELSE r0
        rid1 == IF r1 = r0 THEN rid ELSE rid + 1
        r2 == IF t3 >= t THEN InsertReminderOrIgnore(r1, rid1, event_id, REM_3H, t3) ELSE r1
    IN r2

\* create_or_replace_reminders without its second INSERT.  C11 does not hold
\* of it.
create_or_replace_reminders_long_only(rem, rid, event_id, dt, t) ==
    LET t36 == dt - Hours36
        r0 == {r \in rem : r.event_id # event_id}
    IN IF t36 > t THEN InsertReminderOrIgnore(r0, rid, event_id, REM_36H, t36) ELSE r0

\* create_or_replace_reminders with the second INSERT outside its `if`: the
\* short-lead reminder is stored whatever its deadline.  C12 does not hold of it.
create_or_replace_reminders_short_always(rem, rid, event_id, dt, t) ==
    LET t36 == dt - Hours36
        t3 == dt - Hours3
        r0 == {r \in rem : r.event_id # event_id}
        r1 == IF t36 > t THEN InsertReminderOrIgnore(r0, rid, event_id, REM_36H, t36) ELSE r0
        rid1 == IF r1 = r0 THEN rid ELSE rid + 1
    IN InsertReminderOrIgnore(r1, rid1, event_id, REM_3H, t3)

\* create_or_replace_reminders without its DELETE and with plain INSERTs on a
\* table without UNIQUE(event_id, kind).  C26 does not hold of it.
create_or_replace_reminders_append(rem, rid, event_id, dt, t) ==
    LET t36 == dt - Hours36
        t3 == dt - Hours3
        row(id, kind, run_at) == [id |-> id, event_id |-> event_id, kind |-> kind,
                                  run_at_iso |-> run_at, sent |-> 0, sent_at_iso |-> NULL]
        r1 == IF t36 > t THEN rem \cup {row(rid, REM_36H, t36)} ELSE rem
        rid1 == IF r1 = rem THEN rid ELSE rid + 1
    IN IF t3 > t THEN r1 \cup {row(rid1, REM_3H, t3)} ELSE r1

\* create_or_replace_reminders without its two comparisons with now_tz(): both
\* kinds are stored again whatever their deadlines.  C32 does not hold of it.
create_or_replace_reminders_always_both(rem, rid, event_id, dt, t) ==
    LET r0 == {r \in rem : r.event_id # event_id}
        r1 == InsertReminderOrIgnore(r0, rid, event_id, REM_36H, dt - Hours36)
    IN InsertReminderOrIgnore(r1, rid + 1, event_id, REM_3H, dt - Hours3)

\* create_or_replace_reminders on a table whose id is no AUTOINCREMENT column:
\* a new row takes the largest id left in the table plus one, so the ids of
\* deleted rows come back.  C36 does not hold of it.
create_or_replace_reminders_reusing_ids(rem, rid, event_id, dt, t) ==
    LET t36 == dt - Hours36
        t3 == dt - Hours3
        r0 == {r \in rem : r.event_id # event_id}
        free(rows) == IF rows = {} THEN 1
                      ELSE 1 + (CHOOSE i \in {r.id : r \in rows} :
                                   \A j \in {r.id : r \in rows} : j <= i)
        r1 == IF t36 > t THEN InsertReminderOrIgnore(r0, free(r0), event_id, REM_36H, t36) ELSE r0
    IN IF t3 > t THEN InsertReminderOrIgnore(r1, free(r1), event_id, REM_3H, t3) ELSE r1

\* create_or_replace_reminders(db, event_id, dt) at clock reading t: the
\* reminders table afterwards, given the next free reminder id.
create_or_replace_reminders(rem, rid, event_id, dt, t) ==
    LET t36 == dt - Hours36
        t3 == dt - Hours3
        r0 == {r \in rem : r.event_id # event_id}
        r1 == IF t36 > t THEN InsertReminderOrIgnore(r0, rid, event_id, REM_36H, t36) ELSE r0
        rid1 == IF r1 = r0 THEN rid ELSE rid + 1
        r2 == IF t3 > t THEN InsertReminderOrIgnore(r1, rid1, event_id, REM_3H, t3) ELSE r1
    IN r2
\* The rows create_or_replace_reminders inserts (ids drawn from the sequence).
InsertedCount(event_id, dt, t) ==
    (IF dt - Hours36 > t THEN 1 ELSE 0) + (IF dt - Hours3 > t THEN 1 ELSE 0)

\* The INSERT with ON CONFLICT(poll_id, user_id) DO NOTHING: the first answer
\* stays.  C9 does not hold of it.
InsertVoteOrIgnore(vt, poll_id, user_id, option_id) ==
    IF \E v \in vt : v.poll_id = poll_id /\ v.user_id = user_id
    THEN vt
    ELSE vt \cup {[poll_id |-> poll_id, user_id |-> user_id, option_id |-> option_id]}

\* An answer without option deleting the user's row instead of storing NULL.
\* C29 does not hold of it.
UpsertVoteDeleteOnNone(vt, poll_id, user_id, option_id) ==
    {v \in vt : ~(v.poll_id = poll_id /\ v.user_id = user_id)}
        \cup (IF option_id = NULL THEN {}
              ELSE {[poll_id |-> poll_id, user_id |-> user_id, option_id |-> option_id]})

\* INSERT INTO votes ... ON CONFLICT(poll_id, user_id) DO UPDATE SET option_id=excluded.option_id
UpsertVote(vt, poll_id, user_id, option_id) ==
    {v \in vt : ~(v.poll_id = poll_id /\ v.user_id = user_id)}
        \cup {[poll_id |-> poll_id, user_id |-> user_id, option_id |-> option_id]}

\* The SELECT without its v.option_id=? condition: everybody who answered the
\* poll.  C19 does not hold of it.
get_users_by_choice_any_option(vt, poll_id, option_id) ==
    {v.user_id : v \in {w \in vt : w.poll_id = poll_id}}

\* get_users_by_choice: the user ids whose vote row for the poll holds the option.
get_users_by_choice(vt, poll_id, option_id) ==
    {v.user_id : v \in {w \in vt : w.poll_id = poll_id /\ w.option_id = option_id}}

Init ==
    /\ now = 0
    /\ events = {}
    /\ votes = {}
    /\ reminders = {}
    /\ nextEventId = 1
    /\ nextReminderId = 1
    /\ wpc = "sleep"
    /\ due = <<>>
    /\ wtxn = FALSE
    /\ wmarks = {}
    /\ sending = {}
    /\ outbox = <<>>
    /\ pending = {}
    /\ faults = 0
    /\ served = 0

\* The clock moves on to a later reading.
Tick ==
    /\ \E t \in Clock : t > now /\ now' = t
    /\ UNCHANGED <<store, worker, outbox, pending, faults, served>>

\* ------------------------------------------------------------ bot handlers
\* A request that got past its checks is counted.
Serve ==
    /\ served < MaxRequests
    /\ served' = served + 1

\* A suspended handler: every field is present, NULL where the handler has none.
\* A poll answer's user and option are fixed when the handler starts and not
\* read before its INSERT; the model draws them there.
PendingVote(poll_id) ==
    [op |-> "poll_answer", poll_id |-> poll_id, event_id |-> NULL, dt |-> NULL]
PendingEdit(event_id, dt) ==
    [op |-> "edited_via_api", poll_id |-> NULL, event_id |-> event_id, dt |-> dt]

\* on_webapp_data, action "create": the chat signature and the start time are
\* checked, then the event row and its reminders are written in one transaction.
CreateAccepted(target_chat_id, sig, dt) ==
    /\ sig # NoSig
    /\ make_chat_sig(target_chat_id) = sig
    /\ ~(dt <= now)
CreateEvent(target_chat_id, sig, dt, from_user) ==
    IF CreateAccepted(target_chat_id, sig, dt)
    THEN /\ ~wtxn
         /\ Serve
         /\ nextEventId \in EventIds
         /\ nextReminderId + InsertedCount(nextEventId, dt, now) - 1 <= MaxReminders
         /\ events' = events \cup {[id |-> nextEventId, chat_id |-> target_chat_id,
                                    poll_id |-> PollIdOf(nextEventId),
                                    creator_user_id |-> from_user, dt_iso |-> Aware(dt)]}
         /\ reminders' = create_or_replace_reminders(reminders, nextReminderId, nextEventId, dt, now)
         /\ nextEventId' = nextEventId + 1
         /\ nextReminderId' = nextReminderId + InsertedCount(nextEventId, dt, now)
         /\ UNCHANGED <<now, votes, worker, outbox, pending, faults>>
    ELSE UNCHANGED vars

\* on_poll_answer without its SELECT 1 FROM events: every answer goes on to
\* write.  C33 does not hold of it.
PollAnswerCheckSkipped(poll_id) == TRUE

\* on_poll_answer up to its SELECT 1 FROM events WHERE poll_id=?: an answer for
\* a poll of no event returns, any other goes on to write.
PollAnswerCheck(poll_id) == EventByPoll(events, poll_id) # {}
OnPollAnswerRead(poll_id) ==
    IF PollAnswerCheck(poll_id)
    THEN /\ Cardinality(pending) < MaxPending
         /\ Serve
         /\ pending' = pending \cup {PendingVote(poll_id)}
         /\ UNCHANGED <<now, store, worker, outbox, faults>>
    ELSE UNCHANGED vars
\* on_poll_answer from its INSERT ... ON CONFLICT to its commit.
OnPollAnswerWrite(p, user_id, option_id) ==
    /\ p \in pending
    /\ p.op = "poll_answer"
    /\ ~wtxn
    /\ votes' = UpsertVote(votes, p.poll_id, user_id, option_id)
    /\ pending' = pending \ {p}
    /\ UNCHANGED <<now, events, reminders, nextEventId, nextReminderId, worker,
                   outbox, faults, served>>

\* on_webapp_data, action "edited_via_api", up to its SELECT of the event row:
\* the start time it read is what the reminders are derived from.
OnEditedReadUpTo(event_id, max_pending) ==
    IF EventById(events, event_id) # {}
    THEN /\ Cardinality(pending) < max_pending
         /\ Serve
         /\ pending' = pending \cup {PendingEdit(event_id, RowOf(EventById(events, event_id)).dt_iso.t)}
         /\ UNCHANGED <<now, store, worker, outbox, faults>>
    ELSE UNCHANGED vars
OnEditedRead(event_id) == OnEditedReadUpTo(event_id, MaxPending)
\* on_webapp_data, action "edited_via_api": create_or_replace_reminders and commit.
OnEditedWrite(p) ==
    /\ p \in pending
    /\ p.op = "edited_via_api"
    /\ ~wtxn
    /\ nextReminderId + InsertedCount(p.event_id, p.dt, now) - 1 <= MaxReminders
    /\ reminders' = create_or_replace_reminders(reminders, nextReminderId, p.event_id, p.dt, now)
    /\ nextReminderId' = nextReminderId + InsertedCount(p.event_id, p.dt, now)
    /\ pending' = pending \ {p}
    /\ UNCHANGED <<now, events, votes, nextEventId, worker, outbox, faults, served>>

\* delete_event without its comparison of creator_user_id with the actor: any
\* user deletes an event that exists.  C35 does not hold of it.
BotDeleteAllowedAnyActor(event_id, actor_user_id) == EventById(events, event_id) # {}

\* delete_event(bot, event_id, actor_user_id): who may delete, and the deletion.
\* (on_webapp_data action "delete" and the callback on_event_delete both call it.)
BotDeleteAllowed(event_id, actor_user_id) ==
    /\ EventById(events, event_id) # {}
    /\ LET creator_user_id == RowOf(EventById(events, event_id)).creator_user_id
       IN ~(creator_user_id # NULL /\ creator_user_id # actor_user_id)
DeleteRows(event_id, poll_id) ==
    /\ reminders' = {r \in reminders : r.event_id # event_id}
    /\ votes' = {v \in votes : v.poll_id # poll_id}
    /\ events' = {e \in events : e.id # event_id}
\* The text delete_event returns: "not_found" for its text that the event was
\* not found, "creator_only" for its text that only the creator may delete,
\* "deleted" for its text of success.
DeleteReply(event_id, actor_user_id) ==
    LET found == EventById(events, event_id)
    IN IF found = {} THEN "not_found"
       ELSE IF RowOf(found).creator_user_id # NULL
               /\ RowOf(found).creator_user_id # actor_user_id THEN "creator_only"
       ELSE "deleted"
delete_event(event_id, actor_user_id) ==
    IF BotDeleteAllowed(event_id, actor_user_id)
    THEN /\ ~wtxn
         /\ Serve
         /\ DeleteRows(event_id, RowOf(EventById(events, event_id)).poll_id)
         /\ UNCHANGED <<now, nextEventId, nextReminderId, worker, outbox,
                        pending, faults>>
    ELSE UNCHANGED vars

\* -------------------------------------------------------- reminders_worker
\* The SELECT without its sent=0 condition.  C4 does not hold of it.
DueRowsIgnoringSent(rem, t) == {r \in rem : r.run_at_iso <= t}

\* The SELECT without its run_at_iso<=? condition.  C27 does not hold of it.
DueRowsAnyTime(rem, t) == {r \in rem : r.sent = 0}

\* get_due_reminders: the rows with sent=0 AND run_at_iso<=now.
DueRows(rem, t) == {r \in rem : r.sent = 0 /\ r.run_at_iso <= t}
\* ... ORDER BY run_at_iso ASC: every order of the rows with run_at_iso
\* ascending (SQL leaves the order of equal keys open), as (id, event_id, kind).
get_due_reminders(rem, t) ==
    LET rows == DueRows(rem, t)
        n == Cardinality(rows)
        orders == {f \in [1..n -> rows] :
                      /\ \A i, j \in 1..n : i # j => f[i] # f[j]
                      /\ \A i, j \in 1..n : i < j => f[i].run_at_iso <= f[j].run_at_iso}
    IN {[i \in 1..n |-> [id |-> f[i].id, event_id |-> f[i].event_id, kind |-> f[i].kind]]
            : f \in orders}

\* mark_reminder_sent(db, reminder_id) inside the worker's transaction.
mark_reminder_sent(marks, reminder_id, t) == marks \cup {[id |-> reminder_id, at |-> t]}
\* The UPDATE setting the flag alone: sent_at_iso stays NULL.  C25 does not
\* hold of it.
ApplyMarksFlagOnly(rem, marks) ==
    {IF \E m \in marks : m.id = r.id THEN [r EXCEPT !.sent = 1] ELSE r : r \in rem}

\* db.commit(): UPDATE reminders SET sent=1, sent_at_iso=? WHERE id=? for every mark.
ApplyMarks(rem, marks) ==
    {IF \E m \in marks : m.id = r.id
     THEN [r EXCEPT !.sent = 1,
                    !.sent_at_iso = (CHOOSE m \in marks : m.id = r.id /\
                                        \A k \in marks : k.id = r.id => k.at <= m.at).at]
     ELSE r : r \in rem}

\* The two kinds with each other's option.  C18 does not hold of it.
KindOptionSwapped(kind) == IF kind = REM_36H THEN OPT_YES ELSE OPT_MAYBE

\* The option whose holders a reminder kind addresses.
KindOption(kind) == IF kind = REM_36H THEN OPT_MAYBE ELSE OPT_YES
\* The recipients taken to be everybody who holds one of the two options
\* reminders address, whatever the kind.  C31 does not hold of it.
RecipientsOfEitherKind(event, kind) ==
    get_users_by_choice(votes, event.poll_id, OPT_MAYBE)
        \cup get_users_by_choice(votes, event.poll_id, OPT_YES)
Recipients(event, kind) ==
    IF kind \in Kinds THEN get_users_by_choice(votes, event.poll_id, KindOption(kind)) ELSE {}
\* The message of one reminder: one text for the event's chat that mentions
\* the recipients.
Message(d, event) ==
    [reminder_id |-> d.id, event_id |-> d.event_id, kind |-> d.kind,
     chat_id |-> event.chat_id, users |-> Recipients(event, d.kind)]
Handed(d) == [reminder_id |-> d.id, event_id |-> d.event_id, kind |-> d.kind]

\* Top of the while loop: open a connection and fetch the due reminders.  With
\* nothing due the for loop is empty and the commit writes nothing.
WorkerFetch ==
    /\ wpc = "sleep"
    /\ IF DueRows(reminders, now) # {}
       THEN /\ \E d \in get_due_reminders(reminders, now) : due' = d
            /\ wpc' = "cycle"
            /\ UNCHANGED <<now, store, wtxn, wmarks, sending, outbox, pending, faults, served>>
       ELSE UNCHANGED vars

\* The end of a pass without its mark_reminder_sent.  C20 does not hold of it.
GoOnWithoutMark ==
    /\ due' = Tail(due)
    /\ sending' = {}
    /\ IF Tail(due) = <<>>
       THEN /\ reminders' = ApplyMarks(reminders, wmarks)
            /\ wmarks' = {}
            /\ wtxn' = FALSE
            /\ wpc' = "sleep"
       ELSE /\ wpc' = "cycle"
            /\ UNCHANGED <<reminders, wmarks, wtxn>>
    /\ UNCHANGED <<now, events, votes, nextEventId, nextReminderId>>

\* The end of a pass with a db.commit() of its own after mark_reminder_sent.
\* C28 does not hold of it.
MarkAndCommitEach ==
    /\ due' = Tail(due)
    /\ sending' = {}
    /\ reminders' = ApplyMarks(reminders, mark_reminder_sent(wmarks, Head(due).id, now))
    /\ wmarks' = {}
    /\ wtxn' = FALSE
    /\ wpc' = (IF Tail(due) = <<>> THEN "sleep" ELSE "cycle")
    /\ UNCHANGED <<now, events, votes, nextEventId, nextReminderId>>

\* The end of one pass of the for loop: mark_reminder_sent for the head of
\* `due`; after the last pass db.commit() follows at once and the worker sleeps.
MarkAndGoOn ==
    LET marks == mark_reminder_sent(wmarks, Head(due).id, now)
    IN /\ due' = Tail(due)
       /\ sending' = {}
       /\ IF Tail(due) = <<>>
          THEN /\ reminders' = ApplyMarks(reminders, marks)
               /\ wmarks' = {}
               /\ wtxn' = FALSE
               /\ wpc' = "sleep"
          ELSE /\ wmarks' = marks
               /\ wtxn' = TRUE
               /\ wpc' = "cycle"
               /\ UNCHANGED reminders
       /\ UNCHANGED <<now, events, votes, nextEventId, nextReminderId>>

\* A pass of the for loop without its `if not event`: the reminder of a missing
\* event is sent too, to the chat the reminder's event id stands for.  C34
\* does not hold of it.
WorkerProcessWithoutEventCheck ==
    /\ wpc = "cycle"
    /\ due # <<>>
    /\ LET d == Head(due)
           found == EventById(events, d.event_id)
       IN IF found = {} \/ Recipients(RowOf(found), d.kind) # {}
          THEN /\ sending' = {IF found = {}
                              THEN [reminder_id |-> d.id, event_id |-> d.event_id,
                                    kind |-> d.kind, chat_id |-> NULL, users |-> {}]
                              ELSE Message(d, RowOf(found))}
               /\ outbox' = Append(outbox, Handed(d))
               /\ wpc' = "sending"
               /\ UNCHANGED <<now, store, due, wtxn, wmarks>>
          ELSE /\ MarkAndGoOn
               /\ UNCHANGED outbox
    /\ UNCHANGED <<pending, faults, served>>

\* One pass of the for loop up to bot.send_message: a reminder of a missing
\* event or with no recipient is marked sent at once, otherwise the message
\* is handed to the Notifier.
WorkerProcess ==
    /\ wpc = "cycle"
    /\ due # <<>>
    /\ LET d == Head(due)
           found == EventById(events, d.event_id)
       IN IF found # {} /\ Recipients(RowOf(found), d.kind) # {}
          THEN /\ sending' = {Message(d, RowOf(found))}
               /\ outbox' = Append(outbox, Handed(d))
               /\ wpc' = "sending"
               /\ UNCHANGED <<now, store, due, wtxn, wmarks>>
          ELSE /\ MarkAndGoOn
               /\ UNCHANGED outbox
    /\ UNCHANGED <<pending, faults, served>>

\* bot.send_message returned: mark the reminder sent and go on with the loop.
WorkerSendOk ==
    /\ wpc = "sending"
    /\ MarkAndGoOn
    /\ UNCHANGED <<outbox, pending, faults, served>>

\* An exception that is not caught: the worker task ends.  C13 does not hold
\* of it.
AbortCycleUncaught ==
    /\ wmarks' = {}
    /\ wtxn' = FALSE
    /\ due' = <<>>
    /\ sending' = {}
    /\ wpc' = "stopped"

\* What an exception in the cycle does: it leaves the for loop and the
\* `async with`, the connection closes without commit (the marks of the cycle
\* are rolled back), the error is logged and the worker sleeps.
AbortCycle ==
    /\ wmarks' = {}
    /\ wtxn' = FALSE
    /\ due' = <<>>
    /\ sending' = {}
    /\ wpc' = "sleep"

\* bot.send_message raised inside a try block of its own: the reminder is
\* marked and the loop goes on to its commit.  C24 does not hold of it.
WorkerSendThrowCommitting ==
    /\ wpc = "sending"
    /\ faults < MaxFaults
    /\ faults' = faults + 1
    /\ MarkAndGoOn
    /\ UNCHANGED <<outbox, pending, served>>

\* bot.send_message raised.
WorkerSendThrow ==
    /\ wpc = "sending"
    /\ faults < MaxFaults
    /\ faults' = faults + 1
    /\ AbortCycle
    /\ UNCHANGED <<now, store, outbox, pending, served>>

\* A Store operation of the for loop raised (SELECT of the event row,
\* get_users_by_choice, mark_reminder_sent): the same way out.
WorkerStoreRaise ==
    /\ wpc = "cycle"
    /\ faults < MaxFaults
    /\ faults' = faults + 1
    /\ AbortCycle
    /\ UNCHANGED <<now, store, outbox, pending, served>>

\* The bot process dies and is started again: the worker's open transaction
\* is rolled back and the suspended handlers are gone; the store stays.
Crash ==
    /\ wpc # "sleep" \/ pending # {}
    /\ faults < MaxFaults
    /\ faults' = faults + 1
    /\ AbortCycle
    /\ pending' = {}
    /\ UNCHANGED <<now, store, outbox, served>>

\* ----------------------------------------------------------------- gateway
\* A request's credentials: query parameters user_id and user_sig, and the
\* X-Telegram-InitData header.  A request comes with the header alone (or
\* with nothing), or with a user id and any user_sig.
Credentials ==
    {[user_id |-> NULL, user_sig |-> NoSig, init_data |-> i] : i \in InitDatas}
        \cup {[user_id |-> u, user_sig |-> s, init_data |-> NoInitData] :
                  u \in Users, s \in UserSigInputs}
PatchTimes == {Aware(t) : t \in PatchStartTimes} \cup {Naive(t) : t \in {44}} \cup {Unparsable}

\* user_id_final as api_update_event and api_delete_event compute it first.
UserIdFinal(c) ==
    IF c.init_data.present THEN telegram_webapp_verify_initdata(c.init_data)
    ELSE IF c.user_id # NULL /\ c.user_sig # NoSig THEN c.user_id
    ELSE NULL

\* The checks without the comparison of user_sig with the signature expected
\* for the event's chat.  C5 does not hold of them.
OwnerStatusUnsigned(event_id, c) ==
    LET found == EventById(events, event_id)
        row == RowOf(found)
    IN IF found = {} THEN 404
       ELSE IF row.creator_user_id = NULL THEN 403
       ELSE IF UserIdFinal(c) = NULL THEN 401
       ELSE IF row.creator_user_id # UserIdFinal(c) THEN 403
       ELSE 200

\* The checks both mutation handlers run on the event row, in the code's
\* order; 200 when all pass.
OwnerStatus(event_id, c) ==
    LET found == EventById(events, event_id)
        row == RowOf(found)
    IN IF found = {} THEN 404
       ELSE IF row.creator_user_id = NULL THEN 403
       ELSE IF UserIdFinal(c) = NULL THEN 401
       ELSE IF ~c.init_data.present /\ c.user_sig # NoSig
               /\ _user_sig_expected(row.chat_id, UserIdFinal(c)) # c.user_sig THEN 403
       ELSE IF row.creator_user_id # UserIdFinal(c) THEN 403
       ELSE 200

\* api_update_event without its try block around datetime.fromisoformat: any
\* dt_iso is stored.  C23 does not hold of it.
UpdateStatusAnyStart(event_id, dt_iso, c) ==
    IF c.init_data.present /\ telegram_webapp_verify_initdata(c.init_data) = NULL THEN 401
    ELSE OwnerStatus(event_id, c)

\* api_update_event: the HTTP status of PUT /api/event/{event_id}.
UpdateStatus(event_id, dt_iso, c) ==
    IF c.init_data.present /\ telegram_webapp_verify_initdata(c.init_data) = NULL THEN 401
    ELSE IF dt_iso = Unparsable \/ ~dt_iso.tz THEN 400
    ELSE OwnerStatus(event_id, c)
api_update_event(event_id, dt_iso, c) ==
    IF UpdateStatus(event_id, dt_iso, c) = 200
    THEN /\ ~wtxn
         /\ Serve
         /\ events' = {IF e.id = event_id THEN [e EXCEPT !.dt_iso = dt_iso] ELSE e : e \in events}
         /\ UNCHANGED <<now, votes, reminders, nextEventId, nextReminderId,
                        worker, outbox, pending, faults>>
    ELSE UNCHANGED vars

\* api_delete_event with its DELETEs ahead of the creator check: a request
\* answered 403 has deleted already.  C15 does not hold of it.
api_delete_event_unchecked(event_id, c) ==
    IF OwnerStatus(event_id, c) \in {200, 403}
    THEN /\ ~wtxn
         /\ DeleteRows(event_id, PollIdOf(event_id))
         /\ UNCHANGED <<now, nextEventId, nextReminderId, worker, outbox,
                        pending, faults, served>>
    ELSE UNCHANGED vars

\* api_delete_event: the HTTP status of DELETE /api/event/{event_id}.
DeleteStatus(event_id, c) ==
    IF c.init_data.present /\ telegram_webapp_verify_initdata(c.init_data) = NULL THEN 401
    ELSE OwnerStatus(event_id, c)
api_delete_event(event_id, c) ==
    IF DeleteStatus(event_id, c) = 200
    THEN /\ ~wtxn
         /\ Serve
         /\ DeleteRows(event_id, RowOf(EventById(events, event_id)).poll_id)
         /\ UNCHANGED <<now, nextEventId, nextReminderId, worker, outbox,
                        pending, faults>>
    ELSE UNCHANGED vars

\* verify_chat_sig(chat_id, sig): TRUE where it returns, FALSE where it raises
\* HTTPException(403).
verify_chat_sig(chat_id, sig) ==
    LET exp == _chat_sig_expected(chat_id)
    IN ~(sig = NoSig \/ exp # sig)

\* api_get_event: the status of GET /api/event/{event_id} and the EventView it
\* returns.  The handler takes no parameter but the event id.
api_get_event(event_id) ==
    LET found == EventById(events, event_id)
    IN IF found = {} THEN [status |-> 404, items |-> {}]
       ELSE [status |-> 200,
             items |-> {[id |-> r.id, chat_id |-> r.chat_id, dt_iso |-> r.dt_iso] : r \in found}]

\* The option of the LEFT JOINed vote row of the user (user_id_param is -1
\* for no user), NULL without one.
MyVote(poll_id, user_id_param) ==
    LET mine == {v \in votes : v.poll_id = poll_id /\ v.user_id = user_id_param}
    IN IF mine = {} THEN NULL ELSE RowOf(mine).option_id

\* api_calendar_upcoming: the status of GET /api/calendar/upcoming and the
\* CalendarItems it returns: the chat's events that have not started.
api_calendar_upcoming(chat_id, sig, c) ==
    LET rejected(st) == [status |-> st, items |-> {}]
        user_id_final == IF c.init_data.present
                         THEN telegram_webapp_verify_initdata(c.init_data)
                         ELSE IF c.user_id # NULL /\ c.user_sig # NoSig THEN c.user_id
                         ELSE NULL
    IN IF ~verify_chat_sig(chat_id, sig) THEN rejected(403)
       ELSE IF c.init_data.present /\ telegram_webapp_verify_initdata(c.init_data) = NULL
       THEN rejected(401)
       ELSE IF ~c.init_data.present /\ c.user_id # NULL /\ c.user_sig # NoSig
               /\ _user_sig_expected(chat_id, c.user_id) # c.user_sig
       THEN rejected(403)
       ELSE [status |-> 200,
             items |-> {[id |-> e.id, dt_iso |-> e.dt_iso,
                         my_vote |-> MyVote(e.poll_id, user_id_final)] :
                            e \in {r \in events : r.chat_id = chat_id /\ ~(r.dt_iso.t < now)}}]

\* The credentials of GET /api/calendar/ics: query parameters user_id,
\* user_sig and chat_sig in any combination, and the X-Telegram-InitData header.
IcsCredentials ==
    {[user_id |-> u, user_sig |-> s, chat_sig |-> cs, init_data |-> i] :
        u \in Users \cup {NULL}, s \in UserSigInputs, cs \in ChatSigInputs, i \in InitDatas}

\* api_calendar_ics: the status of GET /api/calendar/ics and the events whose
\* calendar file it returns.  500 is what the server answers when the handler
\* raises something else than an HTTPException: int(None) in the user_sig
\* comparison, datetime.fromisoformat on a text it cannot parse.
api_calendar_ics(event_id, c) ==
    LET rejected(st) == [status |-> st, items |-> {}]
        user_id_final == IF c.init_data.present
                         THEN telegram_webapp_verify_initdata(c.init_data)
                         ELSE IF c.user_id # NULL /\ c.user_sig # NoSig THEN c.user_id
                         ELSE NULL
        found == EventById(events, event_id)
        row == RowOf(found)
    IN IF c.init_data.present /\ telegram_webapp_verify_initdata(c.init_data) = NULL
       THEN rejected(401)
       ELSE IF ~c.init_data.present /\ ~(c.user_id # NULL /\ c.user_sig # NoSig)
               /\ c.chat_sig = NoSig
       THEN rejected(401)
       ELSE IF found = {} THEN rejected(404)
       ELSE IF ~c.init_data.present /\ c.user_sig # NoSig /\ user_id_final = NULL
       THEN rejected(500)
       ELSE IF ~c.init_data.present /\ c.user_sig # NoSig
               /\ _user_sig_expected(row.chat_id, user_id_final) # c.user_sig
       THEN rejected(403)
       ELSE IF ~c.init_data.present /\ c.user_sig = NoSig /\ c.chat_sig # NoSig
               /\ _chat_sig_expected(row.chat_id) # c.chat_sig
       THEN rejected(403)
       ELSE IF row.dt_iso = Unparsable THEN rejected(500)
       ELSE [status |-> 200, items |-> {[id |-> row.id, dt_iso |-> row.dt_iso]}]

\* ------------------------------------------------------------ specification
Next ==
    \/ Tick
    \/ \E c \in FormChats, s \in ChatSigInputs, dt \in StartTimes, u \in Creators :
          CreateEvent(c, s, dt, u)
    \/ \E p \in PollIds : OnPollAnswerRead(p)
    \/ \E p \in pending, a \in Answers : OnPollAnswerWrite(p, a[1], a[2])
    \/ \E e \in EventIds : OnEditedRead(e)
    \/ \E p \in pending : OnEditedWrite(p)
    \/ \E e \in EventIds, u \in Users : delete_event(e, u)
    \/ \E e \in EventIds, dt \in PatchTimes, c \in Credentials : api_update_event(e, dt, c)
    \/ \E e \in EventIds, c \in Credentials : api_delete_event(e, c)
    \/ WorkerFetch
    \/ WorkerProcess
    \/ WorkerSendOk
    \/ WorkerSendThrow
    \/ WorkerStoreRaise
    \/ Crash

Spec == Init /\ [][Next]_vars

\* The same program with the scheduling the event loop gives the worker: a
\* pass of the for loop that can run does run, and an awaited
\* bot.send_message comes back (aiogram bounds every request by its timeout).
LiveSpec ==
    /\ Spec
    /\ WF_vars(WorkerProcess)
    /\ WF_vars(WorkerSendOk)

\* Event creation alone, with the bot started on an empty store at any clock
\* reading and the form's start time given by its lead over the clock.
InitAt ==
    /\ now \in 0..MaxHour
    /\ events = {}
    /\ votes = {}
    /\ reminders = {}
    /\ nextEventId = 1
    /\ nextReminderId = 1
    /\ wpc = "sleep"
    /\ due = <<>>
    /\ wtxn = FALSE
    /\ wmarks = {}
    /\ sending = {}
    /\ outbox = <<>>
    /\ pending = {}
    /\ faults = 0
    /\ served = 0
NextCreate ==
    \E c \in FormChats, s \in ChatSigInputs, d \in LeadTimes, u \in Creators :
        CreateEvent(c, s, now + d, u)
SpecCreate == InitAt /\ [][NextCreate]_vars

\* Creation, PUTs and the edited_via_api handlers that follow them, with
\* several of these handlers suspended between their SELECT and their
\* create_or_replace_reminders at once.
NextEdit ==
    \/ Tick
    \/ \E c \in FormChats, s \in ChatSigInputs, dt \in StartTimes, u \in Creators :
          CreateEvent(c, s, dt, u)
    \/ \E e \in EventIds : OnEditedReadUpTo(e, MaxPendingEdits)
    \/ \E p \in pending : OnEditedWrite(p)
    \/ \E e \in EventIds, dt \in PatchTimes, c \in Credentials : api_update_event(e, dt, c)
SpecEdit == Init /\ [][NextEdit]_vars

\* ------------------------------------------------------------- properties
\* C1: across all worker cycles, with Notifier calls that raise and crashes
\* of the process, the message of one reminder is handed to the Notifier at
\* most once.
C1_HandedAtMostOnce ==
    \A i, j \in 1..Len(outbox) :
        outbox[i].reminder_id = outbox[j].reminder_id => i = j

\* C2: when the Notifier call for a reminder raises, the reminder is stored
\* as sent all the same (sent=1 persisted), so it is not left to be retried.
C2_MarkedSentWhenThrown ==
    [][WorkerSendThrow =>
          \A m \in sending : \A r \in reminders' :
              r.id = m.reminder_id => r.sent = 1]_vars

\* C3: when the Notifier call for one due reminder raises, the worker goes on
\* with the remaining reminders it fetched in the same cycle.
C3_RestOfCycleProcessed ==
    [][WorkerSendThrow /\ Tail(due) # <<>> =>
          wpc' = "cycle" /\ due' = Tail(due)]_vars

\* C4: every reminder a fetch of get_due_reminders returns is a stored row
\* whose sent flag is 0: a reminder committed as sent is never selected again.
C4_DueNeverSent ==
    [][wpc = "sleep" /\ wpc' = "cycle" =>
          \A i \in 1..Len(due') :
              /\ \E r \in reminders : r.id = due'[i].id
              /\ \A r \in reminders : r.id = due'[i].id => r.sent = 0]_vars
\* A fetch has returned rows while another row, also past its deadline, is
\* stored as sent.
C4_Witness ==
    /\ wpc = "cycle"
    /\ due # <<>>
    /\ \E r \in reminders : r.sent = 1 /\ r.run_at_iso <= now

\* C5: a PUT or DELETE of the gateway changes the store only for a caller
\* whose identity is verified (init data with a valid hash, or a user id with
\* the user signature of the event's chat and that id) and whose verified id
\* is the event's stored creator.  (Both handlers write the events table
\* whenever they write at all.)
C5_MutationOnlyByVerifiedCreator ==
    [][events' # events =>
          \A e \in EventIds, c \in Credentials :
              (api_delete_event(e, c) \/ \E dt \in PatchTimes : api_update_event(e, dt, c))
              => \E row \in events :
                    /\ row.id = e
                    /\ row.creator_user_id # NULL
                    /\ \/ /\ c.init_data.present
                          /\ c.init_data.hash_ok
                          /\ c.init_data.user_id = row.creator_user_id
                       \/ /\ ~c.init_data.present
                          /\ c.user_id = row.creator_user_id
                          /\ c.user_sig = HmacHex(<<row.chat_id, c.user_id>>)]_vars
\* A PUT has moved an event's start time.
C5_Witness == \E e \in events : e.dt_iso.t = 44

\* C6: an event without a recorded creator is never changed or deleted by any
\* request: every step leaves its row as it is.
C6_LegacyEventStays ==
    [][\A e \in events : e.creator_user_id = NULL => e \in events']_vars

\* C7: in every state, each vote row belongs to the poll of a stored event and
\* each reminder row to a stored event.
C7_NoDanglingRows ==
    /\ \A v \in votes : \E e \in events : e.poll_id = v.poll_id
    /\ \A r \in reminders : \E e \in events : e.id = r.event_id

\* C8: every unsent reminder stored for an event fires at the event's stored
\* start time minus the offset of its kind.
C8_RemindersFollowStart ==
    \A e \in events : \A r \in reminders :
        r.event_id = e.id /\ r.sent = 0
            => r.run_at_iso = e.dt_iso.t - KindOffset(r.kind)

\* C9: the votes table holds at most one row per (poll, user), and after an
\* answer is recorded the row of its (poll, user) holds that answer's option.
C9_OneRowLastWriteWins ==
    [][/\ \A v, w \in votes' :
              v.poll_id = w.poll_id /\ v.user_id = w.user_id => v = w
       /\ \A p \in pending \ pending', a \in Answers :
              OnPollAnswerWrite(p, a[1], a[2]) =>
                  /\ \E v \in votes' : v.poll_id = p.poll_id /\ v.user_id = a[1]
                  /\ \A v \in votes' :
                        v.poll_id = p.poll_id /\ v.user_id = a[1] => v.option_id = a[2]]_vars
\* A user mentioned in the message being sent has answered again since: the
\* one row now holds another option than the one the message was built from.
C9_Witness ==
    \E m \in sending : \E v \in votes :
        /\ v.poll_id = PollIdOf(m.event_id)
        /\ v.user_id \in m.users
        /\ v.option_id # KindOption(m.kind)

\* C10: right after create_or_replace_reminders(E, start) at clock reading
\* now, the reminders stored for E are exactly one row for each kind whose
\* deadline start - offset is strictly later than now, each unsent.
C10_ExactlyFutureKinds ==
    [][\A ev \in EventIds, dt \in StartTimes \cup PatchStartTimes :
          (\/ \E p \in pending \ pending' : p.event_id = ev /\ p.dt = dt /\ OnEditedWrite(p)
           \/ /\ nextEventId = ev
              /\ nextEventId' # nextEventId
              /\ \E c \in FormChats, s \in ChatSigInputs, u \in Creators :
                    CreateAccepted(c, s, dt) /\ CreateEvent(c, s, dt, u))
          => LET mine == {r \in reminders' : r.event_id = ev}
             IN /\ {r.kind : r \in mine} = {k \in Kinds : dt - KindOffset(k) > now}
                /\ \A r, q \in mine : r.kind = q.kind => r = q
                /\ \A r \in mine :
                      /\ r.sent = 0
                      /\ r.run_at_iso = dt - KindOffset(r.kind)
                      /\ r.run_at_iso > now]_vars
\* An event whose reminders are the short-lead one alone, unsent: the
\* long-lead deadline had passed when they were derived.
C10_Witness ==
    \E e \in events :
        /\ {r.kind : r \in {x \in reminders : x.event_id = e.id}} = {REM_3H}
        /\ \A r \in reminders : r.event_id = e.id => r.sent = 0

\* C11: an event created with start = now + 40 h gets exactly two reminders,
\* the long-lead one firing at now + 4 h and the short-lead one at now + 37 h.
C11_TwoRemindersFortyHoursAhead ==
    [][\A c \in FormChats, s \in ChatSigInputs, u \in Creators :
          CreateAccepted(c, s, now + 40) /\ CreateEvent(c, s, now + 40, u) =>
              /\ Cardinality(reminders') = 2
              /\ \E r \in reminders' :
                    /\ r.event_id = nextEventId /\ r.kind = REM_36H
                    /\ r.run_at_iso = now + 4 /\ r.sent = 0
              /\ \E r \in reminders' :
                    /\ r.event_id = nextEventId /\ r.kind = REM_3H
                    /\ r.run_at_iso = now + 37 /\ r.sent = 0]_vars
\* An event stored with its start 40 h after the clock reading it was created at.
C11_Witness ==
    \E e \in events : e.dt_iso.t = now + 40 /\ reminders # {}

\* C12 as stated: an event created with start = now + 2 h gets exactly one
\* reminder, the short-lead one.
C12_ShortLeadOnly ==
    [][\A c \in FormChats, s \in ChatSigInputs, u \in Creators :
          CreateAccepted(c, s, now + 2) /\ CreateEvent(c, s, now + 2, u) =>
              {r.kind : r \in {x \in reminders' : x.event_id = nextEventId}} = {REM_3H}]_vars
\* C12 amended: an event created with start = now + 2 h gets no reminder: the
\* short-lead deadline now - 1 h has passed as the long-lead one has.
C12_NoReminderTwoHoursAhead ==
    [][\A c \in FormChats, s \in ChatSigInputs, u \in Creators :
          CreateAccepted(c, s, now + 2) /\ CreateEvent(c, s, now + 2, u) =>
              /\ events' # events
              /\ reminders' = {}]_vars
\* An event stored with its start 2 h after the clock reading it was created at.
C12_Witness ==
    \E e \in events : e.dt_iso.t = now + 2 /\ reminders = {}

\* C13: reminders_worker never terminates: whatever happened in a cycle (the
\* event row missing, nobody to remind, the Notifier or a Store call raising),
\* the worker comes back to its sleep at the top of the loop, from where the
\* next cycle starts.
C13_WorkerBackToSleep == (wpc # "sleep") ~> (wpc = "sleep")
\* After a failed cycle another cycle has run: the reminder whose cycle
\* failed has been handed to the Notifier a second time.
C13_Witness ==
    /\ faults > 0
    /\ Len(outbox) = 2
    /\ outbox[1] = outbox[2]

\* C14: a gateway read (GET /api/event/{id}, GET /api/calendar/upcoming)
\* returns event fields only to a request carrying the chat signature of the
\* chat of every event returned; without a valid one it returns no event data.
C14_ReadsNeedChatSig ==
    \A sig \in ChatSigInputs :
        /\ \A e \in EventIds : \A it \in api_get_event(e).items :
              sig = make_chat_sig(it.chat_id)
        /\ \A ch \in Chats, c \in Credentials :
              \A it \in api_calendar_upcoming(ch, sig, c).items :
                  \A ev \in events : ev.id = it.id => sig = make_chat_sig(ev.chat_id)

\* C15: a PUT or DELETE of the gateway that is rejected (status other than
\* 200) leaves the store as it was: a step of either handler that changes a
\* table is a step of an accepted request.
C15_RejectedLeavesStore ==
    [][store' # store =>
          \A e \in EventIds, c \in Credentials :
              /\ api_delete_event(e, c) => DeleteStatus(e, c) = 200
              /\ \A dt \in PatchTimes :
                    api_update_event(e, dt, c) => UpdateStatus(e, dt, c) = 200]_vars
\* The store holds an event with votes and reminders while requests are
\* rejected for a missing credential, for a foreign caller and for a start
\* time without timezone.
C15_Witness ==
    /\ events # {} /\ votes # {} /\ reminders # {}
    /\ \E e \in EventIds, c \in Credentials : DeleteStatus(e, c) = 401
    /\ \E e \in EventIds, c \in Credentials : DeleteStatus(e, c) = 403
    /\ \E e \in EventIds, c \in Credentials, dt \in PatchTimes : UpdateStatus(e, dt, c) = 400

\* C16: a PUT or DELETE carrying user id U and the user signature of (C, U)
\* for an event of another chat is rejected, U being the creator or not, and
\* changes nothing in the store.  (The statuses are functions of the events
\* table, and a handler that writes writes that table: both halves are stated
\* of the steps that change it, the statuses of the table the step produces.)
C16_ForeignChatSignatureRejected ==
    [][events' # events =>
          /\ \A e \in events', u \in Users : \A ch \in Chats \ {e.chat_id} :
                LET c == [user_id |-> u, user_sig |-> make_user_sig(ch, u),
                          init_data |-> NoInitData]
                IN /\ DeleteStatus(e.id, c)' = 403
                   /\ \A dt \in PatchTimes :
                         UpdateStatus(e.id, dt, c)' = IF dt.tz THEN 403 ELSE 400
          /\ \A e \in events, u \in Users : \A ch \in Chats \ {e.chat_id} :
                LET c == [user_id |-> u, user_sig |-> make_user_sig(ch, u),
                          init_data |-> NoInitData]
                IN /\ ~api_delete_event(e.id, c)
                   /\ \A dt \in PatchTimes : ~api_update_event(e.id, dt, c)]_vars
\* An event of chat 7 whose creator holds a user signature issued for chat 5.
C16_Witness ==
    \E e \in events :
        /\ e.chat_id = 7
        /\ e.creator_user_id \in Users
        /\ [user_id |-> e.creator_user_id, user_sig |-> make_user_sig(5, e.creator_user_id),
            init_data |-> NoInitData] \in Credentials
        /\ reminders # {}

\* C17: with the HMAC injective, verify_chat_sig accepts make_chat_sig(C) for
\* chat C and nothing else (another chat's signature, none); the user
\* signature expected for (C, U) is the one issued for exactly (C, U); the
\* gateway recomputes what bot.py and core.py issue; and the gateway accepts a
\* user signature on an event only when it was issued for the event's chat
\* and the user id of the request.
C17_SignatureRoundTrip ==
    /\ \A c, d \in Chats : verify_chat_sig(c, make_chat_sig(d)) <=> c = d
    /\ \A c \in Chats : ~verify_chat_sig(c, NoSig) /\ ~verify_chat_sig(c, ForgedSig)
    /\ \A c, d \in Chats, u, w \in Users :
          /\ (_user_sig_expected(c, u) = make_user_sig(d, w)) <=> (c = d /\ u = w)
          /\ ~verify_chat_sig(c, make_user_sig(d, w))
    /\ \A c \in Chats :
          /\ make_chat_sig(c) = _chat_sig_expected(c)
          /\ core_make_chat_sig(c) = _chat_sig_expected(c)
          /\ \A u \in Users : make_user_sig(c, u) = _user_sig_expected(c, u)
          /\ \A u \in Users : core_make_user_sig(c, u) = _user_sig_expected(c, u)
    /\ \A e \in events, u, w \in Users, ch \in Chats :
          OwnerStatus(e.id, [user_id |-> u, user_sig |-> make_user_sig(ch, w),
                             init_data |-> NoInitData]) = 200
              => ch = e.chat_id /\ w = u
\* An event created through a chat signature the bot issued, on which the
\* gateway accepts the user signature the bot issues to its creator.
C17_Witness ==
    \E e \in events :
        /\ verify_chat_sig(e.chat_id, make_chat_sig(e.chat_id))
        /\ e.creator_user_id \in Users
        /\ OwnerStatus(e.id, [user_id |-> e.creator_user_id,
                              user_sig |-> make_user_sig(e.chat_id, e.creator_user_id),
                              init_data |-> NoInitData]) = 200

\* C18: when the worker processes a due reminder whose event exists, the
\* recipients are the users whose stored vote on the event's poll is `maybe`
\* for a long-lead reminder and `yes` for a short-lead one; with recipients,
\* exactly one message goes out, to the event's chat, naming them all; with
\* none, no message goes out and the reminder is marked sent in the cycle.
C18_RecipientsByKindOneMessage ==
    [][WorkerProcess =>
          LET d == Head(due)
              found == {e \in events : e.id = d.event_id}
              row == CHOOSE e \in found : TRUE
              wanted == IF d.kind = REM_36H THEN OPT_MAYBE ELSE OPT_YES
              R == {v.user_id : v \in {w \in votes : w.poll_id = row.poll_id
                                                     /\ w.option_id = wanted}}
          IN found # {} =>
                IF R # {}
                THEN /\ outbox' = Append(outbox, [reminder_id |-> d.id,
                                                  event_id |-> d.event_id, kind |-> d.kind])
                     /\ sending' = {[reminder_id |-> d.id, event_id |-> d.event_id,
                                     kind |-> d.kind, chat_id |-> row.chat_id, users |-> R]}
                ELSE /\ outbox' = outbox
                     /\ sending' = {}
                     /\ \/ \E m \in wmarks' : m.id = d.id
                        \/ \A r \in reminders' : r.id = d.id => r.sent = 1]_vars
\* One message in flight that names two recipients.
C18_Witness == \E m \in sending : Cardinality(m.users) = 2

\* C19: once a user's answer `no` is recorded, the user's one vote row holds
\* `no` and the user is in neither the `maybe` nor the `yes` recipient set of
\* the poll, whatever the user had answered before.
C19_DeclinedNotReminded ==
    [][\A p \in pending \ pending', u \in Users :
          OnPollAnswerWrite(p, u, OPT_NO) =>
              /\ \E v \in votes' : v.poll_id = p.poll_id /\ v.user_id = u
              /\ \A v \in votes' :
                    v.poll_id = p.poll_id /\ v.user_id = u => v.option_id = OPT_NO
              /\ u \notin get_users_by_choice(votes', p.poll_id, OPT_MAYBE)
              /\ u \notin get_users_by_choice(votes', p.poll_id, OPT_YES)]_vars
\* A user named in the message being sent (so `yes` or `maybe` when it was
\* built) has answered `no` since.
C19_Witness ==
    \E m \in sending : \E v \in votes :
        /\ v.poll_id = PollIdOf(m.event_id)
        /\ v.user_id \in m.users
        /\ v.option_id = OPT_NO

\* C20: when the worker processes a due reminder whose event row is missing,
\* no message goes out, the reminder is marked sent, and the worker goes on
\* with the next due reminder of the cycle.
C20_OrphanMarkedAndSkipped ==
    [][WorkerProcess /\ ~(\E e \in events : e.id = Head(due).event_id) =>
          /\ outbox' = outbox
          /\ sending' = {}
          /\ due' = Tail(due)
          /\ \/ \E m \in wmarks' : m.id = Head(due).id
             \/ \A r \in reminders' : r.id = Head(due).id => r.sent = 1
          /\ wpc' = IF Tail(due) = <<>> THEN "sleep" ELSE "cycle"]_vars
\* The worker has marked a reminder and goes on with the cycle, with no event
\* in the store and nothing handed to the Notifier.
C20_Witness ==
    /\ events = {}
    /\ wmarks # {}
    /\ due # <<>>
    /\ outbox = <<>>

\* C21: GET /api/calendar/upcoming with the chat's signature succeeds whatever
\* the user credentials are, and lists the chat's events that have not
\* started; where the credentials are absent or do not verify (bad init data,
\* user signature that is not the one of the chat and the user id), every
\* item's my_vote is null.
C21_IdentityOptional ==
    \A ch \in Chats, c \in Credentials :
        LET r == api_calendar_upcoming(ch, make_chat_sig(ch), c)
            verified ==
                \/ c.init_data.present /\ c.init_data.hash_ok /\ c.init_data.user_id # NULL
                \/ /\ ~c.init_data.present
                   /\ c.user_id # NULL
                   /\ c.user_sig = HmacHex(<<ch, c.user_id>>)
        IN /\ r.status = 200
           /\ {i.id : i \in r.items}
                 = {e.id : e \in {x \in events : x.chat_id = ch /\ x.dt_iso.t >= now}}
           /\ ~verified => \A i \in r.items : i.my_vote = NULL

\* C22: a PUT or DELETE of the gateway that carries neither init data nor a
\* user id with a user signature is answered 401 (missing credentials)
\* whether or not the event exists and whatever its creator is.
C22_MissingCredentialsUniform ==
    \A e \in EventIds, c \in Credentials :
        ~c.init_data.present /\ (c.user_id = NULL \/ c.user_sig = NoSig)
            => /\ DeleteStatus(e, c) = 401
               /\ \A dt \in PatchTimes : dt.tz => UpdateStatus(e, dt, c) = 401

\* C23: every stored event's start timestamp parses and carries an offset:
\* no step stores another one, and a step that changes the events table is
\* never a PUT whose dt_iso is unparsable or has no offset; such a PUT is
\* answered 400 (401 when its init data does not verify).
C23_StartAlwaysQualified ==
    [][events' # events =>
          /\ \A e \in events' : e.dt_iso # Unparsable /\ e.dt_iso.tz
          /\ \A e \in EventIds, c \in Credentials, dt \in PatchTimes :
                dt = Unparsable \/ ~dt.tz
                    => /\ ~api_update_event(e, dt, c)
                       /\ UpdateStatus(e, dt, c) \in {400, 401}]_vars
\* Every stored event has the start a PUT gave it, with its offset.
C23_Witness == events # {} /\ \A e \in events : e.dt_iso = Aware(44)

\* C24: a crash of the process or an exception in the cycle leaves the store
\* as it is: every reminder the cycle had fetched (still to be processed,
\* being sent, or marked and not committed) is still stored unsent and past
\* its deadline; and every fetch returns all stored reminders that are unsent
\* and past their deadline.
C24_NoDueReminderLostByCrash ==
    [][/\ faults' # faults =>
            \A r \in reminders :
                (\/ \E i \in 1..Len(due) : due[i].id = r.id
                 \/ \E m \in wmarks : m.id = r.id
                 \/ \E m \in sending : m.reminder_id = r.id)
                    => /\ r.sent = 0
                       /\ r \in reminders'
                       /\ r.run_at_iso <= now'
       /\ wpc = "sleep" /\ wpc' = "cycle" =>
            \A r \in reminders :
                r.sent = 0 /\ r.run_at_iso <= now
                    => \E i \in 1..Len(due') : due'[i].id = r.id]_vars
\* After a fault the worker is in a new cycle and about to process a reminder
\* whose message the aborted cycle had handed to the Notifier.
C24_Witness ==
    /\ faults > 0
    /\ wpc = "cycle"
    /\ due # <<>>
    /\ Len(outbox) = 1
    /\ outbox[1].reminder_id = Head(due).id

\* C25: a reminder row (one id) only ever goes from unsent to sent: a step
\* leaves a row that stays changed in nothing but sent and sent_at_iso, never
\* takes its sent flag from 1 back to 0, and in every state sent_at_iso is
\* NULL exactly when sent is 0.
C25_ScheduledThenSent ==
    [][reminders' # reminders =>
          /\ \A r \in reminders : \A q \in reminders' :
                r.id = q.id =>
                    /\ q.event_id = r.event_id
                    /\ q.kind = r.kind
                    /\ q.run_at_iso = r.run_at_iso
                    /\ r.sent = 1 => q = r
          /\ \A q \in reminders' :
                /\ q.sent \in {0, 1}
                /\ (q.sent_at_iso = NULL) <=> (q.sent = 0)]_vars
\* One event with a reminder sent, with its time, and another still scheduled.
C25_Witness ==
    \E r \in reminders : \E q \in reminders :
        /\ r.event_id = q.event_id
        /\ r.sent = 1
        /\ r.sent_at_iso # NULL
        /\ q.sent = 0

\* C26: in every state, whatever the order in which concurrent
\* create_or_replace_reminders calls for one event write, the reminders table
\* holds at most one row per (event_id, kind), and every row's kind is
\* maybe_36h or yes_3h.
C26_OneReminderPerEventAndKind ==
    \A r \in reminders :
        /\ r.kind \in Kinds
        /\ \A q \in reminders : q.event_id = r.event_id /\ q.kind = r.kind => q = r
\* Two edited_via_api handlers of one event are suspended before their
\* create_or_replace_reminders, having read different start times, while the
\* event's reminders are stored.
C26_Witness ==
    /\ Cardinality(pending) = 2
    /\ \E p \in pending : \E q \in pending :
          p.event_id = q.event_id /\ p.dt # q.dt
    /\ reminders # {}

\* C27: every reminder a fetch returns has its fire-at at or before the clock
\* reading of the fetch and the rows come in non-decreasing fire-at order;
\* the worker takes them from the head of that list, and a message is handed
\* to the Notifier only for the head, whose fire-at is not after the clock.
C27_NeverEarlyInFireOrder ==
    [][/\ wpc = "sleep" /\ wpc' = "cycle" =>
            \A i \in 1..Len(due') : \A r \in reminders :
                r.id = due'[i].id =>
                    /\ r.run_at_iso <= now
                    /\ \A j \in 1..Len(due') : \A q \in reminders :
                          i < j /\ q.id = due'[j].id => r.run_at_iso <= q.run_at_iso
       /\ outbox' # outbox =>
            /\ outbox' = Append(outbox, [reminder_id |-> Head(due).id,
                                         event_id |-> Head(due).event_id,
                                         kind |-> Head(due).kind])
            /\ \A r \in reminders : r.id = Head(due).id => r.run_at_iso <= now
       /\ due' # due /\ wpc # "sleep" /\ faults' = faults => due' = Tail(due)]_vars
\* A cycle that fetched two reminders with different deadlines, the earlier
\* one first.
C27_Witness ==
    /\ wpc = "cycle"
    /\ Len(due) = 2
    /\ \E r \in reminders : \E q \in reminders :
          r.id = due[1].id /\ q.id = due[2].id /\ r.run_at_iso < q.run_at_iso

\* C28: the marks of one worker cycle are persisted together or not at all:
\* a step that changes the sent flag of a stored reminder is the end of a
\* cycle, it sets sent on every stored reminder the cycle marked and changes
\* no other row; and a step in which a call raises or the process crashes
\* changes no reminder and drops the cycle's marks.
C28_CycleCommittedTogether ==
    [][/\ (reminders' # reminders
           /\ \E r \in reminders : \E q \in reminders' : q.id = r.id /\ q.sent # r.sent)
          => /\ wpc # "sleep"
             /\ wpc' = "sleep"
             /\ due' = <<>>
             /\ wmarks' = {}
             /\ ~wtxn'
             /\ \A r \in reminders :
                   IF r.id = Head(due).id \/ \E m \in wmarks : m.id = r.id
                   THEN \E q \in reminders' : q.id = r.id /\ q.sent = 1
                   ELSE r \in reminders'
       /\ faults' # faults => reminders' = reminders /\ wmarks' = {}]_vars
\* Two reminders stored as sent by one commit.
C28_Witness ==
    \E r \in reminders : \E q \in reminders :
        /\ r.id # q.id
        /\ r.sent = 1
        /\ q.sent = 1
        /\ r.sent_at_iso = q.sent_at_iso

\* C29: when an answer without option (a retracted vote) is recorded for the
\* poll of an event, the user's vote row is there afterwards, one row, with
\* option NULL, and the user is in neither the `maybe` nor the `yes`
\* recipient set of the poll.
C29_RetractedKeepsRowWithNone ==
    [][\A p \in pending \ pending', u \in Users :
          OnPollAnswerWrite(p, u, NULL) =>
              LET mine == {v \in votes' : v.poll_id = p.poll_id /\ v.user_id = u}
              IN /\ mine = {[poll_id |-> p.poll_id, user_id |-> u, option_id |-> NULL]}
                 /\ \A k \in Kinds :
                       u \notin get_users_by_choice(votes', p.poll_id, KindOption(k))]_vars
\* A user named in the message being sent has retracted the answer since: the
\* row is kept with option NULL.
C29_Witness ==
    \E m \in sending : \E v \in votes :
        /\ v.poll_id = PollIdOf(m.event_id)
        /\ v.user_id \in m.users
        /\ v.option_id = NULL

\* C30: GET /api/calendar/ics returns an event's calendar file only to a
\* request one of whose proofs verifies (init data with a valid hash; a user
\* id with the user signature of the event's chat and that id; the chat
\* signature of the event's chat), and every request without such a proof is
\* answered 401, 403 or 404.
C30_IcsOnlyWithProof ==
    \A e \in EventIds, c \in IcsCredentials :
        LET r == api_calendar_ics(e, c)
            proof ==
                \/ c.init_data.present /\ c.init_data.hash_ok /\ c.init_data.user_id # NULL
                \/ \E row \in events :
                      /\ row.id = e
                      /\ \/ c.user_id # NULL /\ c.user_sig = HmacHex(<<row.chat_id, c.user_id>>)
                         \/ c.chat_sig = Truncate(HmacHex(<<row.chat_id>>), ChatSigLen)
        IN /\ r.status = 200 => proof
           /\ ~proof => r.status \in {401, 403, 404}

\* C31: the recipients of a reminder are read from the votes table as it is
\* when the worker processes the reminder: a user is named in the message
\* exactly if the user's vote row then holds the option the kind addresses,
\* whatever the row held when the cycle fetched the reminder or before, and
\* no message goes out exactly if no user's row holds it.
C31_RecipientsFromCurrentVotes ==
    [][WorkerProcess /\ (\E e \in events : e.id = Head(due).event_id) =>
          LET e == CHOOSE x \in events : x.id = Head(due).event_id
              holds(u) == \E v \in votes :
                             /\ v.poll_id = e.poll_id
                             /\ v.user_id = u
                             /\ v.option_id = (IF Head(due).kind = REM_36H
                                               THEN OPT_MAYBE ELSE OPT_YES)
          IN /\ \A u \in Users : (\E m \in sending' : u \in m.users) <=> holds(u)
             /\ (sending' = {}) <=> ~(\E u \in Users : holds(u))]_vars
\* The message being sent names user 2 alone while user 1, who answered the
\* same poll, holds the other option reminders address.
C31_Witness ==
    \E m \in sending :
        /\ m.users = {2}
        /\ \E v \in votes :
              /\ v.poll_id = PollIdOf(m.event_id)
              /\ v.user_id = 1
              /\ v.option_id \in {OPT_YES, OPT_MAYBE}

\* C32: when the edited_via_api handler derives an event's reminders again,
\* a kind whose deadline for the start time it read has passed is not stored
\* again; so a reminder that was derived from the same start time and whose
\* message has been handed to the Notifier has no successor of its kind.
C32_DispatchedKindNotRecreated ==
    [][\A p \in pending \ pending' :
          OnEditedWrite(p) =>
              /\ \A k \in Kinds :
                    p.dt - KindOffset(k) <= now
                        => ~(\E q \in reminders' : q.event_id = p.event_id /\ q.kind = k)
              /\ \A r \in reminders :
                    (/\ r.event_id = p.event_id
                     /\ r.run_at_iso = p.dt - KindOffset(r.kind)
                     /\ \E i \in 1..Len(outbox) : outbox[i].reminder_id = r.id)
                        => ~(\E q \in reminders' : q.event_id = r.event_id /\ q.kind = r.kind)]_vars
\* The long-lead reminder of an event that starts at 40 has been dispatched,
\* and the reminders derived again since are the short-lead one alone, unsent.
C32_Witness ==
    \E e \in events : \E i \in 1..Len(outbox) :
        /\ e.dt_iso.t = 40
        /\ outbox[i].event_id = e.id
        /\ outbox[i].kind = REM_36H
        /\ \E r \in reminders :
              /\ r.id > 2
              /\ {q \in reminders : q.event_id = e.id} = {r}
              /\ r.kind = REM_3H
              /\ r.sent = 0

\* C33: an answer for a poll that belongs to no stored event is ignored: no
\* step that changes the store or the suspended handlers is the start of
\* on_poll_answer for such a poll, and neither a vote row nor a suspended
\* handler ever exists for the poll that never belonged to an event.
C33_UnknownPollIgnored ==
    [][store' # store \/ pending' # pending =>
          /\ \A p \in PollIds :
                EventByPoll(events, p) = {} => ~OnPollAnswerRead(p)
          /\ \A v \in votes' : v.poll_id # PollIdOf(0)
          /\ \A h \in pending' : h.poll_id # PollIdOf(0)]_vars
\* The event is deleted and its votes with it: an answer that now comes for
\* its poll finds no event.
C33_Witness ==
    /\ events = {}
    /\ nextEventId > 1
    /\ votes = {}
    /\ pending = {}
    /\ served < MaxRequests

\* C34: once the deletion of an event is committed the event never comes
\* back (its id is not handed out again), and a message is handed to the
\* Notifier only for a reminder whose event is stored when the worker
\* processes it; so a cycle that starts after the deletion sends nothing for
\* the event, whatever reminder rows are left or inserted for it.
C34_NoDispatchAfterDeletion ==
    [][/\ events' # events =>
            \A id \in EventIds :
                id < nextEventId /\ EventById(events, id) = {} => EventById(events', id) = {}
       /\ outbox' # outbox =>
            /\ Len(outbox') = Len(outbox) + 1
            /\ \E e \in events : e.id = outbox'[Len(outbox')].event_id
            /\ \A m \in sending' : \E e \in events : e.id = m.event_id /\ e.chat_id = m.chat_id]_vars
\* After the event's deletion a reminder row was stored for it, came due, and
\* a cycle has processed it and committed it as sent without a message.
C34_Witness ==
    /\ events = {}
    /\ wpc = "sleep"
    /\ \E r \in reminders :
          /\ r.sent = 1
          /\ \A i \in 1..Len(outbox) : outbox[i].reminder_id # r.id

\* C35: the bot's delete_event for an event id that is not stored, or by an
\* actor other than the recorded creator of an event that has one, deletes
\* nothing: no step that changes the store is such a call, and the call
\* returns one of the two refusal texts.
C35_BotDeleteRefused ==
    [][store' # store =>
          \A e \in EventIds, u \in Users :
              (\/ ~(\E x \in events : x.id = e)
               \/ \E x \in events :
                     x.id = e /\ x.creator_user_id # NULL /\ x.creator_user_id # u)
                  => /\ ~delete_event(e, u)
                     /\ DeleteReply(e, u) \in {"not_found", "creator_only"}]_vars
\* An event with a recorded creator has an answer stored and a reminder sent:
\* a deletion by the other user has rows of all three tables to leave alone.
C35_Witness ==
    \E e \in events :
        /\ e.creator_user_id = 1
        /\ \E v \in votes : v.poll_id = e.poll_id /\ v.user_id = 2
        /\ \E r \in reminders : r.event_id = e.id /\ r.sent = 1

\* C36: the worker's mark for the reminder it has processed touches no other
\* row: a row stored for the same event and kind under another id (the
\* reminders were replaced after the fetch), and any unsent row whose
\* deadline is still ahead, is left as it is, unsent and without a mark, so
\* that the fetch at its own deadline returns it.
C36_MarkSparesReplacement ==
    [][due # <<>> /\ due' = Tail(due) /\ wpc # "sleep" /\ faults' = faults =>
          \A r \in reminders :
              (/\ r.sent = 0
               /\ \/ /\ r.event_id = Head(due).event_id
                     /\ r.kind = Head(due).kind
                     /\ r.id # Head(due).id
                  \/ r.run_at_iso > now)
                  => /\ r \in reminders'
                     /\ ~(\E m \in wmarks' : m.id = r.id)]_vars
\* The cycle has marked a reminder whose row was replaced after the fetch:
\* the row of the mark is gone and the event's new reminder is stored unsent.
C36_Witness ==
    /\ events # {}
    /\ \E m \in wmarks : ~(\E r \in reminders : r.id = m.id)
    /\ \E r \in reminders : r.sent = 0
====
